---- MODULE Spec2Model ----
(***************************************************************************)
(* MecanumRobot (librover/src/mecanum_robot.cpp): the shared robot status  *)
(* record, the command dispatch loop (send_command), the motion control    *)
(* loop (motors_control_loop), the public operations and the persisted     *)
(* drive trim (update_drivetrim / load_persistent_params).                 *)
(*                                                                         *)
(* Real-valued quantities are fixed point integers: velocities, rpm and    *)
(* setpoints in whole units, trim in hundredths (TRIM_ONE = 1.00).         *)
(***************************************************************************)
EXTENDS Integers, Sequences, FiniteSets, TLC

(***************************************************************************)
(* Constants of mecanum_robot.hpp                                          *)
(***************************************************************************)
MOTOR_NEUTRAL_ == 0
CONTROL_LOOP_TIMEOUT_MS_ == 1000
FRONT_LEFT == 1
FRONT_RIGHT == 2
BACK_LEFT == 3
BACK_RIGHT == 4
VESC_IDS == FRONT_LEFT .. BACK_RIGHT
\* trim and trim scales are counted in hundredths: TRIM_ONE is the literal 1
TRIM_ONE == 100
MAX_CURVATURE_CORRECTION_ == 50

(***************************************************************************)
(* Bounds of the model                                                     *)
(***************************************************************************)
\* system_clock at construction, in ms since the epoch
StartClock == 2000
\* the clock is followed for this many ms after construction
MaxElapsed == 1001
\* motor identifiers on the bus run from 1 to MaxBusId (ids above BACK_RIGHT
\* belong to no wheel)
MaxBusId == 5

ClockSteps == {CONTROL_LOOP_TIMEOUT_MS_, CONTROL_LOOP_TIMEOUT_MS_ + 1}
MaxClock == StartClock + MaxElapsed

VARIABLES
  clock,               \* std::chrono::system_clock::now(), ms since the epoch
  robotstatus_,        \* robotData record
  estop_,              \* bool
  motors_speeds_,      \* per wheel setpoint, indexed by VESC id
  robotstatus_mutex_,  \* "free" or the name of the thread that owns it
  \* motors_control_loop thread
  m_pc, time_now, m_snap, m_go, m_call, wheel_speeds, velocities,
  m_estop_held,        \* history: estop_ was true when the tick began and ever since
  last_write,          \* history: "rest" when the last write-back came from zero rpm
                       \* and stored neutral setpoints and zero measured velocities,
                       \* "moving" when not, "construction" before the first one
  ctrl_ideal,          \* history: runMotionControl has answered every zero command
                       \* at zero rpm with neutral setpoints
  \* send_command thread
  d_pc, vid, signedMotorCommand, useCurrentControl, msg,
  d_seen,              \* history: the fields read under the lock for this wheel
  d_rest,              \* history: commands and rpm were zero when the tick began
                       \* and ever since
  d_sent,              \* history: the wheels written to the transport in this tick
  d_changed,           \* history: a write-back changed the setpoints or the measured
                       \* velocities after the first wheel of this tick was read
  \* a thread calling the public operations
  c_pc, returnData,
  \* the transport's receive thread (unpack_comm_response)
  r_pc, parsedMsg,
  \* drive trim (update_drivetrim, load_persistent_params)
  trimvalue_, left_trim_, right_trim_,
  mecanum_control__,   \* the trim the Motion Controller holds (setTrim)
  persistent_params_,  \* the stored "trim" parameter, or NoParam
  t_pc, t_delta, t_reg, \* per calling thread: position, argument, register
  t_entry,             \* history, per thread: the trim state when its call began
  accepted,            \* history: a delta passed the bounds check since construction
  phase,               \* "construct", "loading", "loaded" (constructed), "running"
  before,              \* history: the trim state when the process was restarted
  \* the constructor's tail (register_comm_base, the two std::thread)
  comm_base_,          \* the transport object, or NoTransport (empty unique_ptr)
  k_pc                 \* position of the constructor, then "done", "failed", "crashed"

shared == <<clock, robotstatus_, estop_, motors_speeds_, robotstatus_mutex_>>
mvars == <<m_pc, time_now, m_snap, m_go, m_call, wheel_speeds, velocities>>
dvars == <<d_pc, vid, signedMotorCommand, useCurrentControl, msg, d_seen, d_sent, d_changed>>
cvars == <<c_pc, returnData>>
rvars == <<r_pc, parsedMsg>>
hist == <<m_estop_held, last_write, ctrl_ideal, d_rest>>
trimstate == <<trimvalue_, left_trim_, right_trim_, mecanum_control__, persistent_params_>>
tvars == <<trimstate, t_pc, t_delta, t_reg, t_entry, accepted, phase, before>>
kvars == <<comm_base_, k_pc>>
vars == <<shared, mvars, dvars, cvars, rvars, hist, tvars, kvars>>

(***************************************************************************)
(* Input domains                                                           *)
(***************************************************************************)
\* control_array values handed to set_robot_velocity (C index 0..3 is 1..4 here)
ControlArrays == {<<0, 0, 0, 0>>, <<1, 2, 3, 4>>}
RpmValues == {0, 1}
CurrentSample == 2
SetpointValues == {MOTOR_NEUTRAL_, 1}
\* runMotionControl results: stand still, all wheels driven, two wheels driven
WheelOutputs == {[w \in VESC_IDS |-> MOTOR_NEUTRAL_], [w \in VESC_IDS |-> 1],
                 [w \in VESC_IDS |-> IF w \in {FRONT_LEFT, BACK_RIGHT} THEN 1
                                                                     ELSE MOTOR_NEUTRAL_]}
\* decoded telemetry: every payload the codec can hand over
ParsedMsgs == [dataValid : BOOLEAN, vescId : 1 .. MaxBusId,
               rpm : RpmValues, current : {CurrentSample}]
\* decoded telemetry while the loops are studied: valid payloads of one wheel
LoopMsgs == {m \in ParsedMsgs : m.dataValid /\ m.vescId = FRONT_LEFT}
NoMsg == [dataValid |-> FALSE, vescId |-> 0, rpm |-> 0, current |-> 0]
NoCmd == [vescId |-> 0, commandType |-> "NONE", commandValue |-> 0]
NoSnap == [linear_vel_target |-> 0, trans_vel_target |-> 0, angular_vel_target |-> 0,
           rpm_FL |-> 0, rpm_FR |-> 0, rpm_BL |-> 0, rpm_BR |-> 0, time_from_msg |-> 0]
NoCall == [cmd |-> <<0, 0, 0>>, made |-> FALSE]
NoVel == [linear_velocity |-> 0, trans_velocity |-> 0, angular_velocity |-> 0]
NoSeen == [setpoint |-> 0, linear_vel |-> 0, trans_vel |-> 0, angular_vel |-> 0,
           last_write |-> "none", changed |-> FALSE]
\* write_to_device returns nothing the caller looks at; TRUE is a message that
\* went out, FALSE one that did not
WriteResults == BOOLEAN
\* comm_base_ before register_comm_base, and after it when no transport was made
NoTransport == "null"

Neutral == [w \in VESC_IDS |-> MOTOR_NEUTRAL_]

\* the parameter file as read_param("trim") sees it: <<>> when there is no
\* value, <<v>> when the value is v
NoParam == <<>>
NoBefore == [trimvalue |-> 0, left |-> 0, right |-> 0, stored |-> NoParam,
             accepted |-> FALSE]

\* robotstatus_ = {0}
ZeroStatus ==
  [cmd_linear_vel |-> 0, cmd_angular_vel |-> 0, cmd_trans_vel |-> 0, cmd_ts |-> 0,
   linear_vel |-> 0, trans_vel |-> 0, angular_vel |-> 0,
   motor1_rpm |-> 0, motor1_id |-> 0, motor1_current |-> 0,
   motor2_rpm |-> 0, motor2_id |-> 0, motor2_current |-> 0,
   motor3_rpm |-> 0, motor3_id |-> 0, motor3_current |-> 0,
   motor4_rpm |-> 0, motor4_id |-> 0, motor4_current |-> 0]

(***************************************************************************)
(* Collaborators (Motion Controller)                                       *)
(***************************************************************************)
\* MecanumMotionController::runMotionControl: the setpoints depend on the
\* controller's own state (acceleration limiting, PID), so any output vector
\* is possible for any input.
runMotionControl(cmd, duty, rpm) == WheelOutputs

\* MecanumMotionController::getMeasuredVelocities: mecanum forward kinematics
\* (unit geometry)
getMeasuredVelocities(fl, fr, rl, rr) ==
  [linear_velocity |-> fl + fr + rl + rr,
   trans_velocity |-> (fr + rl) - (fl + rr),
   angular_velocity |-> (fr + rr) - (fl + rl)]

(***************************************************************************)
(* robotstatus_mutex_ and comm_base_                                       *)
(***************************************************************************)
\* robotstatus_mutex_.unlock() by the thread that owns it
unlockSkipped(owner) == owner
unlock(owner) == "free"

\* comm_base_->...: calling through an empty unique_ptr is undefined; the
\* process is killed ("crashed") or goes on
Dereference(comm_base, pc) ==
  IF comm_base = NoTransport THEN {"crashed", pc} ELSE {pc}

(***************************************************************************)
(* Constructor: MecanumRobot::MecanumRobot                                 *)
(***************************************************************************)
Init ==
  /\ clock = StartClock
  /\ robotstatus_ = ZeroStatus
  /\ estop_ = FALSE
  /\ motors_speeds_ = Neutral
  /\ robotstatus_mutex_ = "free"
  /\ m_pc = "now" /\ time_now = 0 /\ m_snap = NoSnap /\ m_go = FALSE
  /\ m_call = NoCall /\ wheel_speeds = Neutral /\ velocities = NoVel
  /\ m_estop_held = FALSE /\ last_write = "construction" /\ ctrl_ideal = TRUE
  /\ d_pc = "lock" /\ vid = FRONT_LEFT /\ signedMotorCommand = 0
  /\ useCurrentControl = FALSE /\ msg = NoCmd /\ d_seen = NoSeen /\ d_rest = TRUE
  /\ d_sent = <<>> /\ d_changed = FALSE
  /\ c_pc = "idle" /\ returnData = ZeroStatus
  /\ r_pc = "idle" /\ parsedMsg = NoMsg

\* the wall clock advances
Tick ==
  /\ \E s \in ClockSteps : clock + s <= MaxClock /\ clock' = clock + s
  /\ UNCHANGED <<robotstatus_, estop_, motors_speeds_, robotstatus_mutex_>>
  /\ UNCHANGED <<mvars, dvars, cvars, rvars, hist, tvars, kvars>>

(***************************************************************************)
(* motors_control_loop                                                     *)
(***************************************************************************)
AllNeutral(speeds) == \A w \in VESC_IDS : speeds[w] = MOTOR_NEUTRAL_

\* the condition of the if at the head of the tick's compute step
GateNoEstop(estop, age) == age <= CONTROL_LOOP_TIMEOUT_MS_
GateNoStale(estop, age) == ~estop
GateStrict(estop, age) == ~estop /\ age < CONTROL_LOOP_TIMEOUT_MS_
Gate(estop, age) == ~estop /\ age <= CONTROL_LOOP_TIMEOUT_MS_

\* the velocities handed to runMotionControl in the taken branch
TargetsStored(go, snap) ==
  <<snap.linear_vel_target, snap.trans_vel_target, snap.angular_vel_target>>
Targets(go, snap) ==
  IF go THEN <<snap.linear_vel_target, snap.trans_vel_target, snap.angular_vel_target>>
        ELSE <<0, 0, 0>>

\* the setpoints stored by the taken branch
SetpointsFromController(go, ws) == ws
Setpoints(go, ws) == IF go THEN ws ELSE Neutral

\* send_command has read the first wheel of its tick and not yet written the last
FirstReadDone ==
  /\ d_pc # "sleep"
  /\ vid > FRONT_LEFT \/ d_pc \in {"build", "write"}

\* time_now = system_clock::now()
McNow ==
  /\ m_pc = "now"
  /\ time_now' = clock
  /\ m_estop_held' = estop_
  /\ m_pc' = "lock1"
  /\ UNCHANGED <<shared, m_snap, m_go, m_call, wheel_speeds, velocities>>
  /\ UNCHANGED <<dvars, cvars, rvars, last_write, ctrl_ideal, d_rest, tvars, kvars>>

\* robotstatus_mutex_.lock() before the snapshot
McLock1 ==
  /\ m_pc = "lock1"
  /\ robotstatus_mutex_ = "free"
  /\ robotstatus_mutex_' = "motors_control_loop"
  /\ m_pc' = "snap"
  /\ UNCHANGED <<clock, robotstatus_, estop_, motors_speeds_>>
  /\ UNCHANGED <<time_now, m_snap, m_go, m_call, wheel_speeds, velocities>>
  /\ UNCHANGED <<dvars, cvars, rvars, hist, tvars, kvars>>

\* the snapshot of commands, rpm and timestamp, then unlock()
McSnap ==
  /\ m_pc = "snap"
  /\ m_snap' = [linear_vel_target |-> robotstatus_.cmd_linear_vel,
                trans_vel_target |-> robotstatus_.cmd_trans_vel,
                angular_vel_target |-> robotstatus_.cmd_angular_vel,
                rpm_FL |-> robotstatus_.motor1_rpm,
                rpm_FR |-> robotstatus_.motor2_rpm,
                rpm_BL |-> robotstatus_.motor3_rpm,
                rpm_BR |-> robotstatus_.motor4_rpm,
                time_from_msg |-> robotstatus_.cmd_ts]
  /\ robotstatus_mutex_' = unlock(robotstatus_mutex_)
  /\ m_pc' = "gate"
  /\ UNCHANGED <<clock, robotstatus_, estop_, motors_speeds_>>
  /\ UNCHANGED <<time_now, m_go, m_call, wheel_speeds, velocities>>
  /\ UNCHANGED <<dvars, cvars, rvars, hist, tvars, kvars>>

\* if (!estop_ && (time_now - time_from_msg).count() <= CONTROL_LOOP_TIMEOUT_MS_):
\* estop_ is read here without the mutex
McGate ==
  /\ m_pc = "gate"
  /\ m_go' = Gate(estop_, time_now - m_snap.time_from_msg)
  /\ m_pc' = "run"
  /\ UNCHANGED <<shared, time_now, m_snap, m_call, wheel_speeds, velocities>>
  /\ UNCHANGED <<dvars, cvars, rvars, hist, tvars, kvars>>

\* wheel_speeds = mecanum_control__->runMotionControl(...)
McRun ==
  /\ m_pc = "run"
  /\ m_call' = [cmd |-> Targets(m_go, m_snap), made |-> TRUE]
  /\ wheel_speeds' \in runMotionControl(Targets(m_go, m_snap), <<0, 0, 0, 0>>,
         <<m_snap.rpm_FL, m_snap.rpm_FR, m_snap.rpm_BL, m_snap.rpm_BR>>)
  /\ ctrl_ideal' = (ctrl_ideal /\ (/\ Targets(m_go, m_snap) = <<0, 0, 0>>
                                    /\ m_snap.rpm_FL = 0 /\ m_snap.rpm_FR = 0
                                    /\ m_snap.rpm_BL = 0 /\ m_snap.rpm_BR = 0
                                    => AllNeutral(wheel_speeds')))
  /\ m_pc' = "est"
  /\ UNCHANGED <<shared, time_now, m_snap, m_go, velocities>>
  /\ UNCHANGED <<dvars, cvars, rvars, m_estop_held, last_write, d_rest, tvars, kvars>>

\* velocities = mecanum_control__->getMeasuredVelocities(...)
McEst ==
  /\ m_pc = "est"
  /\ velocities' = getMeasuredVelocities(m_snap.rpm_FL, m_snap.rpm_FR,
                                         m_snap.rpm_BL, m_snap.rpm_BR)
  /\ m_pc' = "lock2"
  /\ UNCHANGED <<shared, time_now, m_snap, m_go, m_call, wheel_speeds>>
  /\ UNCHANGED <<dvars, cvars, rvars, hist, tvars, kvars>>

\* robotstatus_mutex_.lock() before the write-back
McLock2 ==
  /\ m_pc = "lock2"
  /\ robotstatus_mutex_ = "free"
  /\ robotstatus_mutex_' = "motors_control_loop"
  /\ m_pc' = "write"
  /\ UNCHANGED <<clock, robotstatus_, estop_, motors_speeds_>>
  /\ UNCHANGED <<time_now, m_snap, m_go, m_call, wheel_speeds, velocities>>
  /\ UNCHANGED <<dvars, cvars, rvars, hist, tvars, kvars>>

\* the write-back of setpoints and measured velocities, then unlock()
McWrite ==
  /\ m_pc = "write"
  /\ motors_speeds_' = Setpoints(m_go, wheel_speeds)
  /\ robotstatus_' = [robotstatus_ EXCEPT !.linear_vel = velocities.linear_velocity,
                                          !.trans_vel = velocities.trans_velocity,
                                          !.angular_vel = velocities.angular_velocity]
  /\ robotstatus_mutex_' = unlock(robotstatus_mutex_)
  /\ last_write' = IF /\ m_snap.rpm_FL = 0 /\ m_snap.rpm_FR = 0
                      /\ m_snap.rpm_BL = 0 /\ m_snap.rpm_BR = 0
                      /\ AllNeutral(motors_speeds_')
                      /\ robotstatus_'.linear_vel = 0 /\ robotstatus_'.trans_vel = 0
                      /\ robotstatus_'.angular_vel = 0
                   THEN "rest" ELSE "moving"
  /\ d_changed' = (d_changed \/ (/\ FirstReadDone
                                   /\ <<motors_speeds_', robotstatus_'>>
                                        # <<motors_speeds_, robotstatus_>>))
  /\ m_pc' = "sleep"
  /\ UNCHANGED <<clock, estop_>>
  /\ UNCHANGED <<time_now, m_snap, m_go, m_call, wheel_speeds, velocities>>
  /\ UNCHANGED <<d_pc, vid, signedMotorCommand, useCurrentControl, msg, d_seen, d_sent>>
  /\ UNCHANGED <<cvars, rvars, m_estop_held, ctrl_ideal, d_rest, tvars, kvars>>

\* std::this_thread::sleep_for(sleeptime), then the next iteration
McSleep ==
  /\ m_pc = "sleep"
  /\ m_pc' = "now"
  /\ time_now' = 0 /\ m_snap' = NoSnap /\ m_go' = FALSE /\ m_call' = NoCall
  /\ wheel_speeds' = Neutral /\ velocities' = NoVel
  /\ m_estop_held' = FALSE
  /\ UNCHANGED <<shared, dvars, cvars, rvars, last_write, ctrl_ideal, d_rest, tvars, kvars>>

motors_control_loop ==
  McNow \/ McLock1 \/ McSnap \/ McGate \/ McRun \/ McEst \/ McLock2 \/ McWrite \/ McSleep

(***************************************************************************)
(* send_command                                                            *)
(***************************************************************************)
\* commanded velocities and the four measured wheel speeds are all zero
RestNow(rs) ==
  /\ rs.cmd_linear_vel = 0 /\ rs.cmd_angular_vel = 0 /\ rs.cmd_trans_vel = 0
  /\ rs.motor1_rpm = 0 /\ rs.motor2_rpm = 0 /\ rs.motor3_rpm = 0 /\ rs.motor4_rpm = 0

\* bool useCurrentControl = ...
UseCurrentWheelOnly(setpoint, linear, trans, angular) == setpoint = MOTOR_NEUTRAL_
UseCurrentControl(setpoint, linear, trans, angular) ==
  /\ setpoint = MOTOR_NEUTRAL_
  /\ linear = MOTOR_NEUTRAL_
  /\ trans = MOTOR_NEUTRAL_
  /\ angular = MOTOR_NEUTRAL_

\* the vescChannelCommand handed to buildCommandMessage
ChannelCommandDutyOnly(v, use, command) ==
  [vescId |-> v, commandType |-> "DUTY", commandValue |-> command]
ChannelCommandNeutral(v, use, command) ==
  [vescId |-> v,
   commandType |-> IF use THEN "CURRENT" ELSE "DUTY",
   commandValue |-> MOTOR_NEUTRAL_]
ChannelCommand(v, use, command) ==
  [vescId |-> v,
   commandType |-> IF use THEN "CURRENT" ELSE "DUTY",
   commandValue |-> IF use THEN MOTOR_NEUTRAL_ ELSE command]

\* robotstatus_mutex_.lock() for wheel vid
SdLock ==
  /\ d_pc = "lock"
  /\ robotstatus_mutex_ = "free"
  /\ robotstatus_mutex_' = "send_command"
  /\ d_pc' = "read"
  /\ UNCHANGED <<clock, robotstatus_, estop_, motors_speeds_>>
  /\ UNCHANGED <<vid, signedMotorCommand, useCurrentControl, msg, d_seen, d_sent, d_changed>>
  /\ UNCHANGED <<mvars, cvars, rvars, hist, tvars, kvars>>

\* the reads of the setpoint and of the measured velocities, then unlock()
SdRead ==
  /\ d_pc = "read"
  /\ signedMotorCommand' = motors_speeds_[vid]
  /\ useCurrentControl' = UseCurrentControl(motors_speeds_[vid], robotstatus_.linear_vel,
                                            robotstatus_.trans_vel, robotstatus_.angular_vel)
  /\ d_seen' = [setpoint |-> motors_speeds_[vid], linear_vel |-> robotstatus_.linear_vel,
                trans_vel |-> robotstatus_.trans_vel, angular_vel |-> robotstatus_.angular_vel,
                last_write |-> last_write, changed |-> d_changed]
  /\ robotstatus_mutex_' = unlock(robotstatus_mutex_)
  /\ d_pc' = "build"
  /\ UNCHANGED <<clock, robotstatus_, estop_, motors_speeds_, vid, msg, d_sent, d_changed>>
  /\ UNCHANGED <<mvars, cvars, rvars, hist, tvars, kvars>>

\* msg = vescArray_.buildCommandMessage(...)
SdBuild ==
  /\ d_pc = "build"
  /\ msg' = ChannelCommand(vid, useCurrentControl, signedMotorCommand)
  /\ d_pc' = "write"
  /\ UNCHANGED <<shared, vid, signedMotorCommand, useCurrentControl, d_seen, d_sent, d_changed>>
  /\ UNCHANGED <<mvars, cvars, rvars, hist, tvars, kvars>>

\* vid++ at the end of the for body, whatever became of the write
NextWheelRetry(v, ok) == IF ok THEN v + 1 ELSE v
NextWheel(v, ok) == v + 1

\* comm_base_->write_to_device(msg); vid++
SdWrite ==
  /\ d_pc = "write"
  /\ k_pc' \in Dereference(comm_base_, k_pc)
  /\ \E ok \in WriteResults : vid' = NextWheel(vid, ok)
  /\ d_sent' = Append(d_sent, msg.vescId)
  /\ d_pc' = IF vid' <= BACK_RIGHT THEN "lock" ELSE "sleep"
  /\ signedMotorCommand' = 0 /\ useCurrentControl' = FALSE
  /\ msg' = NoCmd /\ d_seen' = NoSeen
  /\ UNCHANGED <<d_changed, comm_base_>>
  /\ UNCHANGED <<shared, mvars, cvars, rvars, hist, tvars>>

\* std::this_thread::sleep_for(sleeptime), then the next iteration
SdSleep ==
  /\ d_pc = "sleep"
  /\ vid' = FRONT_LEFT
  /\ d_pc' = "lock"
  /\ d_rest' = RestNow(robotstatus_)
  /\ d_sent' = <<>> /\ d_changed' = FALSE
  /\ UNCHANGED <<shared, signedMotorCommand, useCurrentControl, msg, d_seen>>
  /\ UNCHANGED <<mvars, cvars, rvars, m_estop_held, last_write, ctrl_ideal, tvars, kvars>>

send_command == SdLock \/ SdRead \/ SdBuild \/ SdWrite \/ SdSleep

(***************************************************************************)
(* Public operations, called from one external thread                      *)
(***************************************************************************)
\* robotstatus_mutex_.lock() at the head of send_estop, set_robot_velocity
\* and status_request
CallNoLock ==
  /\ c_pc = "idle"
  /\ c_pc' = "locked"
  /\ UNCHANGED <<shared, returnData>>
  /\ UNCHANGED <<mvars, dvars, rvars, hist, tvars, kvars>>
CallLock ==
  /\ c_pc = "idle"
  /\ robotstatus_mutex_ = "free"
  /\ robotstatus_mutex_' = "caller"
  /\ c_pc' = "locked"
  /\ UNCHANGED <<clock, robotstatus_, estop_, motors_speeds_, returnData>>
  /\ UNCHANGED <<mvars, dvars, rvars, hist, tvars, kvars>>

\* send_estop(estop): estop_ = estop; unlock()
send_estop ==
  /\ c_pc = "locked"
  /\ \E estop \in BOOLEAN :
       /\ estop_' = estop
       /\ m_estop_held' = (m_estop_held /\ estop)
  /\ robotstatus_mutex_' = unlock(robotstatus_mutex_)
  /\ c_pc' = "idle"
  /\ UNCHANGED <<clock, robotstatus_, motors_speeds_, returnData>>
  /\ UNCHANGED <<mvars, dvars, rvars, last_write, ctrl_ideal, d_rest, tvars, kvars>>

\* the fields set_robot_velocity stores (control_array[i] is a[i + 1])
StoreCommandThird(rs, a, now) ==
  [rs EXCEPT !.cmd_linear_vel = a[1],
             !.cmd_angular_vel = a[2],
             !.cmd_trans_vel = a[3],
             !.cmd_ts = now]
StoreCommand(rs, a, now) ==
  [rs EXCEPT !.cmd_linear_vel = a[1],
             !.cmd_angular_vel = a[2],
             !.cmd_trans_vel = a[4],
             !.cmd_ts = now]

\* set_robot_velocity(control_array): store the command and its time; unlock()
SetRobotVelocity(control_array) ==
  /\ c_pc = "locked"
  /\ robotstatus_' = StoreCommand(robotstatus_, control_array, clock)
  /\ d_rest' = (d_rest /\ RestNow(robotstatus_'))
  /\ robotstatus_mutex_' = unlock(robotstatus_mutex_)
  /\ c_pc' = "idle"
  /\ UNCHANGED <<clock, estop_, motors_speeds_, returnData>>
  /\ UNCHANGED <<mvars, dvars, rvars, m_estop_held, last_write, ctrl_ideal, tvars, kvars>>

set_robot_velocity == \E control_array \in ControlArrays : SetRobotVelocity(control_array)

\* the members of robotData copied first by returnData = robotstatus_
HeadFields == {"cmd_linear_vel", "cmd_angular_vel", "cmd_trans_vel", "cmd_ts",
               "linear_vel", "trans_vel", "angular_vel"}

\* status_request (and info_request, which only calls it):
\* auto returnData = robotstatus_, the first members
SrCopyHead ==
  /\ c_pc = "locked"
  /\ returnData' = [f \in DOMAIN robotstatus_ |->
                      IF f \in HeadFields THEN robotstatus_[f] ELSE returnData[f]]
  /\ c_pc' = "copy"
  /\ UNCHANGED shared
  /\ UNCHANGED <<mvars, dvars, rvars, hist, tvars, kvars>>

\* auto returnData = robotstatus_, the remaining members; unlock()
SrCopyTail ==
  /\ c_pc = "copy"
  /\ returnData' = [f \in DOMAIN robotstatus_ |->
                      IF f \in HeadFields THEN returnData[f] ELSE robotstatus_[f]]
  /\ robotstatus_mutex_' = unlock(robotstatus_mutex_)
  /\ c_pc' = "status_return"
  /\ UNCHANGED <<clock, robotstatus_, estop_, motors_speeds_>>
  /\ UNCHANGED <<mvars, dvars, rvars, hist, tvars, kvars>>

\* return returnData
status_return ==
  /\ c_pc = "status_return"
  /\ c_pc' = "idle"
  /\ returnData' = ZeroStatus
  /\ UNCHANGED <<shared, mvars, dvars, rvars, hist, tvars, kvars>>

status_request == SrCopyHead \/ SrCopyTail \/ status_return

\* is_connected: the call enters comm_base_->is_connected(), without the mutex
IcCall ==
  /\ c_pc = "idle"
  /\ k_pc = "done"
  /\ k_pc' \in Dereference(comm_base_, k_pc)
  /\ c_pc' = "is_connected"
  /\ UNCHANGED <<shared, returnData, comm_base_>>
  /\ UNCHANGED <<mvars, dvars, rvars, hist, tvars>>

\* return comm_base_->is_connected()
IcReturn ==
  /\ c_pc = "is_connected"
  /\ k_pc = "done"
  /\ c_pc' = "idle"
  /\ UNCHANGED <<shared, returnData>>
  /\ UNCHANGED <<mvars, dvars, rvars, hist, tvars, kvars>>

is_connected == IcCall \/ IcReturn

(***************************************************************************)
(* unpack_comm_response, on the transport's receive thread                 *)
(***************************************************************************)
\* the switch over parsedMsg.vescId
RouteAnyValid(rs, m) ==
  [rs EXCEPT !.motor1_rpm = m.rpm, !.motor1_id = m.vescId, !.motor1_current = m.current]
Route(rs, m) ==
  CASE m.vescId = FRONT_LEFT ->
         [rs EXCEPT !.motor1_rpm = m.rpm, !.motor1_id = m.vescId,
                    !.motor1_current = m.current]
    [] m.vescId = FRONT_RIGHT ->
         [rs EXCEPT !.motor2_rpm = m.rpm, !.motor2_id = m.vescId,
                    !.motor2_current = m.current]
    [] m.vescId = BACK_LEFT ->
         [rs EXCEPT !.motor3_rpm = m.rpm, !.motor3_id = m.vescId,
                    !.motor3_current = m.current]
    [] m.vescId = BACK_RIGHT ->
         [rs EXCEPT !.motor4_rpm = m.rpm, !.motor4_id = m.vescId,
                    !.motor4_current = m.current]
    [] OTHER -> rs

\* if (parsedMsg.dataValid)
DataValidAlways(m) == TRUE
DataValid(m) == m.dataValid

\* parsedMsg = vescArray_.parseReceivedMessage(robotmsg)
UrParse(Msgs) ==
  /\ r_pc = "idle"
  /\ parsedMsg' \in Msgs
  /\ r_pc' = "parsed"
  /\ UNCHANGED <<shared, mvars, dvars, cvars, hist, tvars, kvars>>

\* if (parsedMsg.dataValid) is false: return
UrDrop ==
  /\ r_pc = "parsed"
  /\ ~DataValid(parsedMsg)
  /\ r_pc' = "idle" /\ parsedMsg' = NoMsg
  /\ UNCHANGED <<shared, mvars, dvars, cvars, hist, tvars, kvars>>

\* if (parsedMsg.dataValid) is true: robotstatus_mutex_.lock()
UrLock ==
  /\ r_pc = "parsed"
  /\ DataValid(parsedMsg)
  /\ robotstatus_mutex_ = "free"
  /\ robotstatus_mutex_' = "receiver"
  /\ r_pc' = "route"
  /\ UNCHANGED <<clock, robotstatus_, estop_, motors_speeds_, parsedMsg>>
  /\ UNCHANGED <<mvars, dvars, cvars, hist, tvars, kvars>>

\* the switch, then unlock()
UrRoute ==
  /\ r_pc = "route"
  /\ robotstatus_' = Route(robotstatus_, parsedMsg)
  /\ d_rest' = (d_rest /\ RestNow(robotstatus_'))
  /\ robotstatus_mutex_' = unlock(robotstatus_mutex_)
  /\ r_pc' = "idle" /\ parsedMsg' = NoMsg
  /\ UNCHANGED <<clock, estop_, motors_speeds_>>
  /\ UNCHANGED <<mvars, dvars, cvars, m_estop_held, last_write, ctrl_ideal, tvars, kvars>>


(***************************************************************************)
(* The running robot: both loops, the receive thread and a caller          *)
(***************************************************************************)
\* the trim is not touched while the loops are studied
TrimIdle ==
  /\ trimvalue_ = 0 /\ left_trim_ = TRIM_ONE /\ right_trim_ = TRIM_ONE
  /\ mecanum_control__ = <<TRIM_ONE, TRIM_ONE>> /\ persistent_params_ = NoParam
  /\ t_pc = <<>> /\ t_delta = <<>> /\ t_reg = <<>> /\ t_entry = <<>>
  /\ accepted = FALSE /\ phase = "running" /\ before = NoBefore

\* the constructor has returned with a transport
Constructed == comm_base_ = "CommCan" /\ k_pc = "done"

InitRobot == Init /\ TrimIdle /\ Constructed

\* Motion Control Loop with its inputs: the clock, estop, commands, telemetry
Next ==
  \/ Tick
  \/ motors_control_loop
  \/ CallLock \/ send_estop \/ set_robot_velocity
  \/ UrParse(LoopMsgs) \/ UrLock \/ UrRoute

Spec == InitRobot /\ [][Next]_vars

\* Command Dispatch Loop beside the Motion Control Loop, at one clock time
NextDispatch ==
  \/ motors_control_loop
  \/ send_command
  \/ CallLock \/ set_robot_velocity
  \/ UrParse(LoopMsgs) \/ UrLock \/ UrRoute

SpecDispatch == InitRobot /\ [][NextDispatch]_vars

\* Telemetry Demultiplexer with every decoded payload, beside a caller
NextTelemetry ==
  \/ UrParse(ParsedMsgs) \/ UrDrop \/ UrLock \/ UrRoute
  \/ CallLock \/ send_estop \/ set_robot_velocity

SpecTelemetry == InitRobot /\ [][NextTelemetry]_vars

\* Public status reads beside the writers of the record
NextStatus ==
  \/ CallLock \/ set_robot_velocity \/ status_request
  \/ motors_control_loop
  \/ UrParse(LoopMsgs) \/ UrLock \/ UrRoute

SpecStatus == InitRobot /\ [][NextStatus]_vars

\* Every thread that takes robotstatus_mutex_ or calls a collaborator
NextLock ==
  \/ motors_control_loop
  \/ send_command
  \/ CallLock \/ send_estop \/ is_connected
  \/ UrParse(LoopMsgs) \/ UrLock \/ UrRoute

SpecLock == InitRobot /\ [][NextLock]_vars

\* Command Dispatch Loop under fair scheduling: a thread that can take a step
\* takes one, and a thread that finds the mutex free again and again gets it
NextCadence ==
  \/ send_command
  \/ motors_control_loop
  \/ CallLock \/ send_estop

FairScheduling ==
  /\ WF_vars(SdRead \/ SdBuild \/ SdWrite \/ SdSleep)
  /\ SF_vars(SdLock)
  /\ WF_vars(McSnap \/ McWrite)
  /\ WF_vars(send_estop)

SpecCadence == InitRobot /\ [][NextCadence]_vars /\ FairScheduling

(***************************************************************************)
(* The constructor's tail: register_comm_base and the two threads          *)
(***************************************************************************)
\* device names handed to the constructor
Devices == {"can0", "internal"}

\* register_comm_base(device); made tells whether the CommCan constructor
\* returned (TRUE) or threw (FALSE)
register_comm_base(comm_type, device, made) ==
  IF comm_type = "CAN"
    THEN IF device # "internal"
           THEN IF made THEN [comm_base |-> "CommCan", thrown |-> FALSE]
                        ELSE [comm_base |-> NoTransport, thrown |-> TRUE]
           ELSE [comm_base |-> NoTransport, thrown |-> FALSE]
    ELSE [comm_base |-> NoTransport, thrown |-> TRUE]

\* comm_type_ = "CAN"; ... register_comm_base(device)
KRegister ==
  /\ k_pc = "register_comm_base"
  /\ \E device \in Devices, made \in BOOLEAN :
       LET r == register_comm_base("CAN", device, made)
       IN /\ comm_base_' = r.comm_base
          /\ k_pc' = IF r.thrown THEN "failed" ELSE "write_thread"
  /\ UNCHANGED <<shared, mvars, dvars, cvars, rvars, hist, tvars>>

\* write_to_robot_thread_ = std::thread(send_command)
KStartWrite ==
  /\ k_pc = "write_thread"
  /\ k_pc' = "motor_thread"
  /\ UNCHANGED <<shared, mvars, dvars, cvars, rvars, hist, tvars, comm_base_>>

\* motor_speed_update_thread_ = std::thread(motors_control_loop)
KStartMotor ==
  /\ k_pc = "motor_thread"
  /\ k_pc' = "done"
  /\ UNCHANGED <<shared, mvars, dvars, cvars, rvars, hist, tvars, comm_base_>>

InitConstruct ==
  Init /\ TrimIdle /\ comm_base_ = NoTransport /\ k_pc = "register_comm_base"

\* the constructor from register_comm_base on, the threads it starts and a
\* caller of is_connected on the constructed object
NextConstruct ==
  \/ KRegister \/ KStartWrite \/ KStartMotor
  \/ (k_pc \in {"motor_thread", "done"} /\ send_command)
  \/ (k_pc = "done" /\ motors_control_loop)
  \/ is_connected

SpecConstruct == InitConstruct /\ [][NextConstruct]_vars

(***************************************************************************)
(* Properties of the Motion Control Loop (Spec)                            *)
(***************************************************************************)
Age == time_now - m_snap.time_from_msg

\* C1: a tick that began with estop_ true (send_estop(true) had returned) and
\* during which the flag stayed true has written four neutral setpoints, whatever
\* command is stored and however fresh it is.
EstopForcesNeutral ==
  (m_pc = "sleep" /\ m_estop_held) => AllNeutral(motors_speeds_)

\* C1 witness: such a tick ended with a fresh nonzero command in its snapshot
\* and non-neutral setpoints returned by the controller
EstopForcesNeutralWitness ==
  /\ m_pc = "sleep" /\ m_estop_held
  /\ Age <= CONTROL_LOOP_TIMEOUT_MS_
  /\ m_snap.linear_vel_target # 0
  /\ ~AllNeutral(wheel_speeds)

\* C2: in a tick whose command is older than CONTROL_LOOP_TIMEOUT_MS_ the
\* controller was called with velocities (0,0,0), and the four setpoints the
\* tick wrote are neutral, whatever command is stored.
StaleForcesStop ==
  /\ (m_call.made /\ Age > CONTROL_LOOP_TIMEOUT_MS_) => m_call.cmd = <<0, 0, 0>>
  /\ (m_pc = "sleep" /\ Age > CONTROL_LOOP_TIMEOUT_MS_) => AllNeutral(motors_speeds_)

\* C2 witness: a tick ended 1001 ms after a nonzero command, without estop and
\* with no newer command, the controller having returned non-neutral setpoints
StaleForcesStopWitness ==
  /\ m_pc = "sleep" /\ ~estop_ /\ ~m_estop_held
  /\ Age = CONTROL_LOOP_TIMEOUT_MS_ + 1
  /\ m_snap.linear_vel_target # 0
  /\ robotstatus_.cmd_ts = m_snap.time_from_msg
  /\ ~AllNeutral(wheel_speeds)

(***************************************************************************)
(* Properties of the Command Dispatch Loop (SpecDispatch)                  *)
(***************************************************************************)
SeenAtRest ==
  /\ d_seen.setpoint = MOTOR_NEUTRAL_
  /\ d_seen.linear_vel = MOTOR_NEUTRAL_
  /\ d_seen.trans_vel = MOTOR_NEUTRAL_
  /\ d_seen.angular_vel = MOTOR_NEUTRAL_

HoldCommand == msg.commandType = "CURRENT" /\ msg.commandValue = MOTOR_NEUTRAL_

\* C8: the message built for a wheel is CURRENT with the neutral value exactly
\* when the wheel's setpoint and the three measured velocities, as read under
\* the lock, were all neutral; otherwise it is DUTY with the setpoint as read.
HoldModeSelection ==
  d_pc = "write" =>
    /\ msg.vescId = vid
    /\ msg.commandType \in {"CURRENT", "DUTY"}
    /\ HoldCommand <=> SeenAtRest
    /\ ~SeenAtRest => msg.commandType = "DUTY" /\ msg.commandValue = d_seen.setpoint

\* C8 witness: a wheel at neutral while the robot is measured moving gets DUTY
HoldModeSelectionWitness ==
  /\ d_pc = "write"
  /\ d_seen.setpoint = MOTOR_NEUTRAL_
  /\ d_seen.linear_vel # MOTOR_NEUTRAL_
  /\ msg.commandType = "DUTY"

\* C9 as stated: commanded velocity and the four measured wheel speeds have been
\* zero since before the dispatch tick began, so every wheel of the tick is
\* commanded in hold mode (even granting a controller that answers a zero
\* command at zero rpm with neutral setpoints).
RestImpliesHoldNextTick ==
  (d_pc = "write" /\ d_rest /\ ctrl_ideal) => HoldCommand

\* C9 amended: if moreover, when the wheel was read, the latest write-back of
\* the Motion Control Loop (or construction, before the first) had been computed
\* from four zero wheel speeds and had stored neutral setpoints and zero
\* measured velocities, the wheel is commanded in hold mode.
RestAfterWriteBackImpliesHold ==
  (d_pc = "write" /\ d_rest /\ d_seen.last_write \in {"rest", "construction"})
    => HoldCommand

\* C9 witness: a wheel read after a write-back made at rest
RestAfterWriteBackWitness ==
  /\ d_pc = "write" /\ d_rest /\ d_seen.last_write = "rest"
  /\ vid = BACK_RIGHT
  /\ HoldCommand

(***************************************************************************)
(* Properties of the Telemetry Demultiplexer (SpecTelemetry)               *)
(***************************************************************************)
\* the telemetry slots of the wheels, in the order of VESC_IDS
RpmSlot == <<"motor1_rpm", "motor2_rpm", "motor3_rpm", "motor4_rpm">>
IdSlot == <<"motor1_id", "motor2_id", "motor3_id", "motor4_id">>
CurrentSlot == <<"motor1_current", "motor2_current", "motor3_current", "motor4_current">>

\* the record rs with the payload m stored in the slot of wheel number k
WithTelemetry(rs, k, m) ==
  [f \in DOMAIN rs |-> IF f = RpmSlot[k] THEN m.rpm
                       ELSE IF f = IdSlot[k] THEN m.vescId
                       ELSE IF f = CurrentSlot[k] THEN m.current
                       ELSE rs[f]]

\* C10: a step of unpack_comm_response changes Robot State only when it is the
\* routing step of a valid payload whose motor identifier is one of the four
\* wheels, and then it sets exactly that wheel's speed, identifier and
\* current; every other step of the call, and the routing of an unknown
\* identifier, leaves the record, the setpoints and estop as they were.
TelemetryRouting ==
  [][r_pc' # r_pc =>
       /\ estop_' = estop_
       /\ motors_speeds_' = motors_speeds_
       /\ robotstatus_' =
            IF r_pc = "route" /\ parsedMsg.dataValid /\ parsedMsg.vescId \in VESC_IDS
              THEN WithTelemetry(robotstatus_, parsedMsg.vescId - FRONT_LEFT + 1, parsedMsg)
              ELSE robotstatus_]_vars

\* C10 witness: a payload of the back-left wheel has been routed after a
\* command was stored and estop set, and no other slot has been written
TelemetryRoutingWitness ==
  /\ r_pc = "idle"
  /\ robotstatus_.motor3_rpm = 1 /\ robotstatus_.motor3_id = BACK_LEFT
  /\ robotstatus_.motor3_current = CurrentSample
  /\ robotstatus_.motor1_id = 0 /\ robotstatus_.motor2_id = 0 /\ robotstatus_.motor4_id = 0
  /\ robotstatus_.cmd_linear_vel # 0 /\ estop_

(***************************************************************************)
(* Drive trim: update_drivetrim and load_persistent_params                 *)
(***************************************************************************)
robotvars == <<shared, mvars, dvars, cvars, rvars, hist, kvars>>

\* deltas handed to update_drivetrim by one caller, in hundredths
TrimDeltas == {-45, -5, 4, 5, 10, 45}
\* deltas handed to update_drivetrim by concurrent callers
ConcurrentDeltas == {-30, 30}
\* what the parameter file may hold when the process starts
InitialStores == {NoParam, <<30>>, <<50>>, <<-70>>}

CurrentTrim ==
  [trimvalue |-> trimvalue_, left |-> left_trim_, right |-> right_trim_,
   ctrl |-> mecanum_control__, stored |-> persistent_params_]
NoEntry == [trimvalue |-> 0, left |-> 0, right |-> 0, ctrl |-> <<0, 0>>, stored |-> NoParam]

\* -MAX_CURVATURE_CORRECTION_ < (trimvalue_ + delta)
AboveLower(candidate) == -MAX_CURVATURE_CORRECTION_ < candidate

\* (trimvalue_ + delta) < MAX_CURVATURE_CORRECTION_
BelowUpperInclusive(candidate) == candidate <= MAX_CURVATURE_CORRECTION_
BelowUpper(candidate) == candidate < MAX_CURVATURE_CORRECTION_

\* right_trim_ = 1 - trimvalue_
RightScaleRaised(trimvalue) == TRIM_ONE + trimvalue
RightScale(trimvalue) == TRIM_ONE - trimvalue

\* left_trim_ = 1 + trimvalue_
LeftScale(trimvalue) == TRIM_ONE + trimvalue

\* mecanum_control__->setTrim(left_trim_, right_trim_)
setTrimSwapped(left, right) == <<right, left>>
setTrim(left, right) == <<left, right>>

\* persistent_params_->write_param("trim", trimvalue_)
write_param_delta(trimvalue, delta) == <<delta>>
write_param(trimvalue, delta) == <<trimvalue>>

\* a caller enters update_drivetrim(delta)
\* (entry is the history kept of the state at the call)
UdCall(t, Deltas, entry) ==
  /\ t_pc[t] = "idle"
  /\ phase \in {"loaded", "running"}
  /\ \E delta \in Deltas : t_delta' = [t_delta EXCEPT ![t] = delta]
  /\ t_entry' = [t_entry EXCEPT ![t] = entry]
  /\ t_pc' = [t_pc EXCEPT ![t] = "check_lo"]
  /\ phase' = "running"
  /\ before' = NoBefore
  /\ UNCHANGED <<robotvars, trimstate, t_reg, accepted>>

\* the left operand of the && in the bounds check
UdCheckLo(t) ==
  /\ t_pc[t] = "check_lo"
  /\ t_pc' = [t_pc EXCEPT ![t] = IF AboveLower(trimvalue_ + t_delta[t])
                                    THEN "check_hi" ELSE "ret"]
  /\ UNCHANGED <<robotvars, trimstate, t_delta, t_reg, t_entry, accepted, phase, before>>

\* the right operand of the && in the bounds check
UdCheckHi(t) ==
  /\ t_pc[t] = "check_hi"
  /\ IF BelowUpper(trimvalue_ + t_delta[t])
       THEN t_pc' = [t_pc EXCEPT ![t] = "add_read"] /\ accepted' = TRUE
       ELSE t_pc' = [t_pc EXCEPT ![t] = "ret"] /\ accepted' = accepted
  /\ UNCHANGED <<robotvars, trimstate, t_delta, t_reg, t_entry, phase, before>>

\* trimvalue_ += delta: the read
UdAddRead(t) ==
  /\ t_pc[t] = "add_read"
  /\ t_reg' = [t_reg EXCEPT ![t] = trimvalue_]
  /\ t_pc' = [t_pc EXCEPT ![t] = "add_write"]
  /\ UNCHANGED <<robotvars, trimstate, t_delta, t_entry, accepted, phase, before>>

\* trimvalue_ += delta: the write
UdAddWrite(t) ==
  /\ t_pc[t] = "add_write"
  /\ trimvalue_' = t_reg[t] + t_delta[t]
  /\ t_pc' = [t_pc EXCEPT ![t] = "branch"]
  /\ UNCHANGED <<robotvars, left_trim_, right_trim_, mecanum_control__, persistent_params_>>
  /\ UNCHANGED <<t_delta, t_reg, t_entry, accepted, phase, before>>

\* if (trimvalue_ >= 0)
UdBranch(t) ==
  /\ t_pc[t] = "branch"
  /\ t_pc' = [t_pc EXCEPT ![t] = IF trimvalue_ >= 0 THEN "pos_left" ELSE "neg_right"]
  /\ UNCHANGED <<robotvars, trimstate, t_delta, t_reg, t_entry, accepted, phase, before>>

\* left_trim_ = 1
UdPosLeft(t) ==
  /\ t_pc[t] = "pos_left"
  /\ left_trim_' = TRIM_ONE
  /\ t_pc' = [t_pc EXCEPT ![t] = "pos_right"]
  /\ UNCHANGED <<robotvars, trimvalue_, right_trim_, mecanum_control__, persistent_params_>>
  /\ UNCHANGED <<t_delta, t_reg, t_entry, accepted, phase, before>>

\* right_trim_ = 1 - trimvalue_
UdPosRight(t) ==
  /\ t_pc[t] = "pos_right"
  /\ right_trim_' = RightScale(trimvalue_)
  /\ t_pc' = [t_pc EXCEPT ![t] = "setTrim"]
  /\ UNCHANGED <<robotvars, trimvalue_, left_trim_, mecanum_control__, persistent_params_>>
  /\ UNCHANGED <<t_delta, t_reg, t_entry, accepted, phase, before>>

\* right_trim_ = 1
UdNegRight(t) ==
  /\ t_pc[t] = "neg_right"
  /\ right_trim_' = TRIM_ONE
  /\ t_pc' = [t_pc EXCEPT ![t] = "neg_left"]
  /\ UNCHANGED <<robotvars, trimvalue_, left_trim_, mecanum_control__, persistent_params_>>
  /\ UNCHANGED <<t_delta, t_reg, t_entry, accepted, phase, before>>

\* left_trim_ = 1 + trimvalue_
UdNegLeft(t) ==
  /\ t_pc[t] = "neg_left"
  /\ left_trim_' = LeftScale(trimvalue_)
  /\ t_pc' = [t_pc EXCEPT ![t] = "setTrim"]
  /\ UNCHANGED <<robotvars, trimvalue_, right_trim_, mecanum_control__, persistent_params_>>
  /\ UNCHANGED <<t_delta, t_reg, t_entry, accepted, phase, before>>

\* mecanum_control__->setTrim(left_trim_, right_trim_)
UdSetTrim(t) ==
  /\ t_pc[t] = "setTrim"
  /\ mecanum_control__' = setTrim(left_trim_, right_trim_)
  /\ t_pc' = [t_pc EXCEPT ![t] = "write_param"]
  /\ UNCHANGED <<robotvars, trimvalue_, left_trim_, right_trim_, persistent_params_>>
  /\ UNCHANGED <<t_delta, t_reg, t_entry, accepted, phase, before>>

\* persistent_params_->write_param("trim", trimvalue_)
UdWriteParam(t) ==
  /\ t_pc[t] = "write_param"
  /\ persistent_params_' = write_param(trimvalue_, t_delta[t])
  /\ t_pc' = [t_pc EXCEPT ![t] = "ret"]
  /\ UNCHANGED <<robotvars, trimvalue_, left_trim_, right_trim_, mecanum_control__>>
  /\ UNCHANGED <<t_delta, t_reg, t_entry, accepted, phase, before>>

\* update_drivetrim returns (to its caller, or to load_persistent_params)
UdReturn(t) ==
  /\ t_pc[t] = "ret"
  /\ t_pc' = [t_pc EXCEPT ![t] = "idle"]
  /\ t_delta' = [t_delta EXCEPT ![t] = 0]
  /\ t_reg' = [t_reg EXCEPT ![t] = 0]
  /\ t_entry' = [t_entry EXCEPT ![t] = NoEntry]
  /\ phase' = IF phase = "loading" THEN "loaded" ELSE phase
  /\ UNCHANGED <<robotvars, trimstate, accepted, before>>

update_drivetrim(t) ==
  \/ UdCheckLo(t) \/ UdCheckHi(t) \/ UdAddRead(t) \/ UdAddWrite(t) \/ UdBranch(t)
  \/ UdPosLeft(t) \/ UdPosRight(t) \/ UdNegRight(t) \/ UdNegLeft(t)
  \/ UdSetTrim(t) \/ UdWriteParam(t) \/ UdReturn(t)

\* load_persistent_params, called by the constructor on thread 1
load_persistent_params ==
  /\ phase = "construct"
  /\ IF persistent_params_ = NoParam
       THEN /\ phase' = "loaded"
            /\ UNCHANGED <<t_pc, t_delta, t_entry>>
       ELSE /\ phase' = "loading"
            /\ t_delta' = [t_delta EXCEPT ![1] = persistent_params_[1]]
            /\ t_entry' = [t_entry EXCEPT ![1] = CurrentTrim]
            /\ t_pc' = [t_pc EXCEPT ![1] = "check_lo"]
  /\ UNCHANGED <<robotvars, trimstate, t_reg, accepted, before>>

\* the process ends and a new MecanumRobot is constructed over the same
\* parameter file: the members start from their defaults again
Restart ==
  /\ phase \in {"loaded", "running"}
  /\ \A t \in DOMAIN t_pc : t_pc[t] = "idle"
  /\ before' = [trimvalue |-> trimvalue_, left |-> left_trim_, right |-> right_trim_,
                stored |-> persistent_params_, accepted |-> accepted]
  /\ trimvalue_' = 0 /\ left_trim_' = TRIM_ONE /\ right_trim_' = TRIM_ONE
  /\ mecanum_control__' = <<TRIM_ONE, TRIM_ONE>>
  /\ accepted' = FALSE
  /\ phase' = "construct"
  /\ UNCHANGED <<robotvars, persistent_params_, t_pc, t_delta, t_reg, t_entry>>

TrimThreads(n) ==
  /\ t_pc = [t \in 1 .. n |-> "idle"] /\ t_delta = [t \in 1 .. n |-> 0]
  /\ t_reg = [t \in 1 .. n |-> 0] /\ t_entry = [t \in 1 .. n |-> NoEntry]

\* one thread: the constructor, then adjust_trim calls one after the other
InitTrim ==
  /\ Init
  /\ trimvalue_ = 0 /\ left_trim_ = TRIM_ONE /\ right_trim_ = TRIM_ONE
  /\ mecanum_control__ = <<TRIM_ONE, TRIM_ONE>>
  /\ persistent_params_ \in InitialStores
  /\ TrimThreads(1)
  /\ accepted = FALSE /\ phase = "construct" /\ before = NoBefore
  /\ comm_base_ = NoTransport /\ k_pc = "load_persistent_params"

NextTrim ==
  \/ load_persistent_params
  \/ UdCall(1, TrimDeltas, CurrentTrim)
  \/ update_drivetrim(1)
  \/ Restart

SpecTrim == InitTrim /\ [][NextTrim]_vars

\* two external threads call adjust_trim on the constructed robot
InitTrimConcurrent ==
  /\ Init
  /\ trimvalue_ = 0 /\ left_trim_ = TRIM_ONE /\ right_trim_ = TRIM_ONE
  /\ mecanum_control__ = <<TRIM_ONE, TRIM_ONE>>
  /\ persistent_params_ = NoParam
  /\ TrimThreads(2)
  /\ accepted = FALSE /\ phase = "loaded" /\ before = NoBefore
  /\ Constructed

NextTrimConcurrent ==
  \E t \in 1 .. 2 : UdCall(t, ConcurrentDeltas, NoEntry) \/ update_drivetrim(t)

SpecTrimConcurrent == InitTrimConcurrent /\ [][NextTrimConcurrent]_vars

(***************************************************************************)
(* Properties of the drive trim (SpecTrim, SpecTrimConcurrent)             *)
(***************************************************************************)
StrictlyInside(x) == -MAX_CURVATURE_CORRECTION_ < x /\ x < MAX_CURVATURE_CORRECTION_

ScalesOf(trimvalue) ==
  IF trimvalue >= 0 THEN <<TRIM_ONE, TRIM_ONE - trimvalue>>
                    ELSE <<TRIM_ONE + trimvalue, TRIM_ONE>>

\* C3: with calls made one after the other, trimvalue_ is always strictly
\* inside (-MAX, +MAX), both scales are always in (0, 1] with one of them 1,
\* and when a call returns trimvalue_ is either what it was at the call or
\* old + delta with the scales (1, 1 - trimvalue) or (1 + trimvalue, 1).
TrimBoundAndScales ==
  /\ StrictlyInside(trimvalue_)
  /\ 0 < left_trim_ /\ left_trim_ <= TRIM_ONE
  /\ 0 < right_trim_ /\ right_trim_ <= TRIM_ONE
  /\ left_trim_ = TRIM_ONE \/ right_trim_ = TRIM_ONE
  /\ t_pc[1] = "ret" =>
       \/ trimvalue_ = t_entry[1].trimvalue
       \/ /\ trimvalue_ = t_entry[1].trimvalue + t_delta[1]
          /\ <<left_trim_, right_trim_>> = ScalesOf(trimvalue_)

\* C3 witness: from 0.45, adjust_trim(0.04) returns with 0.49 and scales (1, 0.51)
TrimBoundAndScalesWitness ==
  /\ t_pc[1] = "ret" /\ phase = "running"
  /\ t_entry[1].trimvalue = 45 /\ t_delta[1] = 4
  /\ trimvalue_ = 49 /\ left_trim_ = TRIM_ONE /\ right_trim_ = 51

\* C4 as stated: with adjust_trim called from two threads at once, trimvalue_
\* never leaves (-MAX, +MAX).
ConcurrentTrimBounded == StrictlyInside(trimvalue_)

\* C5: once a restarted process has run load_persistent_params over the file
\* left by a process in which a delta was accepted, trimvalue_, both scales
\* and the stored value are what they were before the restart.
TrimRoundTrip ==
  (phase = "loaded" /\ before.accepted) =>
    /\ trimvalue_ = before.trimvalue
    /\ left_trim_ = before.left
    /\ right_trim_ = before.right
    /\ persistent_params_ = before.stored

\* C5 witness: a restart after two accepted deltas brought the trim to 0.49
TrimRoundTripWitness ==
  /\ phase = "loaded" /\ before.accepted
  /\ before.trimvalue = 49 /\ trimvalue_ = 49 /\ right_trim_ = 51

\* C6: a call whose candidate trimvalue_ + delta is not strictly inside
\* (-MAX, +MAX) returns with trimvalue_, both scales, the controller's trim
\* and the stored value as they were at the call; for the call made by
\* load_persistent_params that is trim zero with the default scales.
TrimRejectIsNoOp ==
  (t_pc[1] = "ret" /\ ~StrictlyInside(t_entry[1].trimvalue + t_delta[1])) =>
    /\ CurrentTrim = t_entry[1]
    /\ phase = "loading" =>
         trimvalue_ = 0 /\ left_trim_ = TRIM_ONE /\ right_trim_ = TRIM_ONE

\* C6 witness: adjust_trim returns from a candidate exactly on the upper bound
TrimRejectIsNoOpWitness ==
  /\ t_pc[1] = "ret" /\ phase = "running"
  /\ t_entry[1].trimvalue = 45
  /\ t_entry[1].trimvalue + t_delta[1] = MAX_CURVATURE_CORRECTION_

\* C7: a call whose delta was accepted returns with the controller's trim equal
\* to (left_trim_, right_trim_) and the stored value equal to trimvalue_; so
\* with no call in progress, after an accepted delta, both equalities hold.
TrimWriteThrough ==
  /\ (t_pc[1] = "ret" /\ StrictlyInside(t_entry[1].trimvalue + t_delta[1])) =>
       /\ mecanum_control__ = <<left_trim_, right_trim_>>
       /\ persistent_params_ = <<trimvalue_>>
  /\ (t_pc[1] = "idle" /\ phase # "loading" /\ accepted) =>
       /\ mecanum_control__ = <<left_trim_, right_trim_>>
       /\ persistent_params_ = <<trimvalue_>>

\* C7 witness: an accepted negative delta is about to return
TrimWriteThroughWitness ==
  /\ t_pc[1] = "ret" /\ phase = "running"
  /\ t_entry[1].trimvalue = 0 /\ t_delta[1] = -45
  /\ persistent_params_ = <<-45>> /\ mecanum_control__ = <<55, TRIM_ONE>>

(***************************************************************************)
(* Properties of the locking discipline (SpecLock, SpecStatus)             *)
(***************************************************************************)
\* the shared fields read or written by the statement the Motion Control Loop
\* is at: the snapshot, the condition of the if, the write-back
McAccess ==
  CASE m_pc = "snap" -> {"robotstatus_"}
    [] m_pc = "gate" -> {"estop_"}
    [] m_pc = "write" -> {"motors_speeds_", "robotstatus_"}
    [] OTHER -> {}

\* ... by the statement send_command is at
SdAccess == IF d_pc = "read" THEN {"motors_speeds_", "robotstatus_"} ELSE {}

\* ... by the statement the public operation is at
CallAccess == IF c_pc \in {"locked", "copy"} THEN {"estop_", "robotstatus_"} ELSE {}

\* ... by the statement unpack_comm_response is at
UrAccess == IF r_pc = "route" THEN {"robotstatus_"} ELSE {}

\* the thread is inside a call of the Motion Controller, the codec or the transport
McInCall == m_pc \in {"run", "est"}
SdInCall == d_pc \in {"build", "write"}
IcInCall == c_pc = "is_connected"

\* the thread is between a lock() and the unlock() that follows it
McInSection == m_pc \in {"snap", "write"}
SdInSection == d_pc = "read"
CallInSection == c_pc \in {"locked", "copy"}
UrInSection == r_pc = "route"

\* C11 as stated: a thread that is at a statement reading or writing a shared
\* field owns robotstatus_mutex_, the Motion Control Loop at the condition of
\* its if (the read of estop_) included.
EveryAccessUnderLock ==
  /\ McAccess # {} => robotstatus_mutex_ = "motors_control_loop"
  /\ SdAccess # {} => robotstatus_mutex_ = "send_command"
  /\ CallAccess # {} => robotstatus_mutex_ = "caller"
  /\ UrAccess # {} => robotstatus_mutex_ = "receiver"

\* C12: a thread inside a call of the Motion Controller, the codec or the
\* transport does not own robotstatus_mutex_; a thread owns it exactly between
\* its lock() and the unlock() that follows, so the mutex is free whenever no
\* thread is in such a section.
LockNotHeldAcrossCalls ==
  /\ McInCall => robotstatus_mutex_ # "motors_control_loop"
  /\ SdInCall => robotstatus_mutex_ # "send_command"
  /\ IcInCall => robotstatus_mutex_ # "caller"
  /\ r_pc \in {"idle", "parsed"} => robotstatus_mutex_ # "receiver"
  /\ robotstatus_mutex_ = "motors_control_loop" <=> McInSection
  /\ robotstatus_mutex_ = "send_command" <=> SdInSection
  /\ robotstatus_mutex_ = "caller" <=> CallInSection
  /\ robotstatus_mutex_ = "receiver" <=> UrInSection
  /\ robotstatus_mutex_ = "free"
       <=> ~(McInSection \/ SdInSection \/ CallInSection \/ UrInSection)

\* C12 witness: the Motion Control Loop is between runMotionControl and
\* getMeasuredVelocities and a caller is inside is_connected while
\* send_command owns the mutex, a telemetry payload having been parsed
LockNotHeldAcrossCallsWitness ==
  /\ m_pc = "est" /\ m_call.made
  /\ c_pc = "is_connected"
  /\ r_pc = "parsed"
  /\ robotstatus_mutex_ = "send_command"

\* a step of status_request: the copy's first part, its second part, the return
StatusStep ==
  \/ c_pc = "locked" /\ c_pc' = "copy"
  \/ c_pc = "copy" /\ c_pc' = "status_return"
  \/ c_pc = "status_return" /\ c_pc' = "idle"

\* C13: status_request changes no shared state; from its lock() to its
\* unlock() no step of any thread changes robotstatus_; and the record it
\* returns is robotstatus_ as it stands at the unlock(), hence as it stood
\* during the whole copy (no member from before and another from after a
\* write of set_robot_velocity, unpack_comm_response or the write-back).
ConsistentStatusSnapshot ==
  [][/\ c_pc = "copy" => robotstatus_' = robotstatus_
     /\ (c_pc = "locked" /\ c_pc' # "idle") => robotstatus_' = robotstatus_
     /\ (c_pc = "copy" /\ c_pc' = "status_return") => returnData' = robotstatus_
     /\ StatusStep => UNCHANGED <<robotstatus_, estop_, motors_speeds_, clock>>]_vars

\* C13 witness: a returned record holds a stored command, a measured velocity
\* and a wheel speed, and the live record has already moved on
ConsistentStatusSnapshotWitness ==
  /\ c_pc = "status_return"
  /\ returnData.cmd_linear_vel # 0 /\ returnData.cmd_ts = StartClock
  /\ returnData.motor1_rpm = 1 /\ returnData.linear_vel # 0
  /\ robotstatus_ # returnData

(***************************************************************************)
(* Properties of construction (SpecConstruct)                              *)
(***************************************************************************)
\* the constructor has gone past register_comm_base without throwing
PastRegister == k_pc \in {"write_thread", "motor_thread", "done", "crashed"}

\* C14 as stated: construction either throws, and then neither loop has
\* started, or goes on with a transport in comm_base_; so send_command never
\* reaches write_to_device, and no caller reaches is_connected, while
\* comm_base_ is empty.
ConstructionAllOrNothing ==
  /\ k_pc = "failed" => d_pc = "lock" /\ vid = FRONT_LEFT /\ m_pc = "now"
  /\ PastRegister => comm_base_ # NoTransport
  /\ d_pc = "write" => comm_base_ # NoTransport
  /\ c_pc = "is_connected" => comm_base_ # NoTransport

(***************************************************************************)
(* Properties of set_robot_velocity (Spec)                                 *)
(***************************************************************************)
\* robotstatus_' differs from robotstatus_ in the four command members only,
\* which hold linear, angular, lateral and the time now
CommandStored(linear, angular, lateral) ==
  robotstatus_' = [f \in DOMAIN robotstatus_ |->
                     CASE f = "cmd_linear_vel" -> linear
                       [] f = "cmd_angular_vel" -> angular
                       [] f = "cmd_trans_vel" -> lateral
                       [] f = "cmd_ts" -> clock
                       [] OTHER -> robotstatus_[f]]

\* the step is one lock section and leaves setpoints and estop_ alone
OneSection ==
  /\ robotstatus_mutex_ = "caller" /\ robotstatus_mutex_' = "free"
  /\ UNCHANGED <<motors_speeds_, estop_, clock>>

\* C15 as stated: the lateral velocity stored is the third of the values handed
\* over (after linear and angular).
VelocityArgumentsInOrder ==
  [][\A a \in ControlArrays :
       SetRobotVelocity(a) => OneSection /\ CommandStored(a[1], a[2], a[3])]_vars

\* C15 amended: set_robot_velocity(control_array) stores, in one lock section,
\* control_array[0] as linear, control_array[1] as angular and control_array[3]
\* as lateral velocity (control_array[2] is not read) with the time now, and
\* changes no other member, no setpoint and not estop_.
VelocityFromArraySlots ==
  [][\A a \in ControlArrays :
       SetRobotVelocity(a) => OneSection /\ CommandStored(a[1], a[2], a[4])]_vars

\* C15 witness: the array (1, 2, 3, 4) was stored at a time after construction,
\* over measured telemetry, and the record shows 1, 2 and 4
VelocityFromArraySlotsWitness ==
  /\ c_pc = "idle" /\ robotstatus_mutex_ = "free"
  /\ robotstatus_.cmd_linear_vel = 1 /\ robotstatus_.cmd_angular_vel = 2
  /\ robotstatus_.cmd_trans_vel = 4
  /\ robotstatus_.cmd_ts = clock /\ clock > StartClock
  /\ robotstatus_.motor1_rpm = 1

(***************************************************************************)
(* Properties of the setpoints and of the safety gate (Spec)               *)
(***************************************************************************)
\* the step of the Motion Control Loop that writes back
WriteBackStep == m_pc = "write" /\ m_pc' = "sleep"

\* C16: only the write-back of the Motion Control Loop changes motors_speeds_,
\* and a write-back leaves a setpoint non-neutral only when the tick's condition
\* was true (estop_ read false, age <= CONTROL_LOOP_TIMEOUT_MS_); so whatever
\* non-neutral setpoint is stored was put there by the last completed tick,
\* and that tick passed its gate.
SetpointsOnlyFromPassingTick ==
  [][/\ motors_speeds_' # motors_speeds_ => WriteBackStep
     /\ (WriteBackStep /\ ~AllNeutral(motors_speeds_')) =>
          m_go /\ Age <= CONTROL_LOOP_TIMEOUT_MS_]_vars

\* C16 witness: setpoints written by a passing tick are still stored while the
\* next tick, stopped by estop_, is about to write, a newer command and a
\* telemetry payload having been stored meanwhile
SetpointsOnlyFromPassingTickWitness ==
  /\ m_pc = "write" /\ ~m_go /\ estop_
  /\ ~AllNeutral(motors_speeds_)
  /\ robotstatus_.cmd_ts > m_snap.time_from_msg
  /\ robotstatus_.motor1_rpm # m_snap.rpm_FL

\* C17: the condition of the if is false exactly when estop_ is read true or
\* the age is above CONTROL_LOOP_TIMEOUT_MS_; when it is true (estop_ false
\* and the age at most the threshold, an age of exactly the threshold or a
\* negative age included) runMotionControl gets the velocities of the
\* snapshot and the four setpoints written are its four outputs; when it is
\* false it gets (0, 0, 0) and the setpoints written are neutral.
GateBoundary ==
  [][/\ (m_pc = "gate" /\ m_pc' = "run") =>
          (~m_go' <=> (estop_ \/ Age > CONTROL_LOOP_TIMEOUT_MS_))
     /\ (m_pc = "run" /\ m_pc' = "est") =>
          m_call'.cmd = IF m_go THEN <<m_snap.linear_vel_target, m_snap.trans_vel_target,
                                       m_snap.angular_vel_target>>
                                ELSE <<0, 0, 0>>
     /\ WriteBackStep =>
          motors_speeds_' = IF m_go THEN wheel_speeds ELSE Neutral]_vars

\* C17 witness: a tick whose command is exactly CONTROL_LOOP_TIMEOUT_MS_ old
\* has handed the nonzero command to the controller and stored its outputs
GateBoundaryWitness ==
  /\ m_pc = "sleep" /\ m_go
  /\ Age = CONTROL_LOOP_TIMEOUT_MS_
  /\ m_call.cmd = <<1, 4, 2>>
  /\ motors_speeds_ = wheel_speeds /\ ~AllNeutral(motors_speeds_)

(***************************************************************************)
(* Properties of the dispatch cadence (SpecCadence, SpecDispatch)          *)
(***************************************************************************)
\* the wheels in the order of the for loop, up to wheel number n
WheelsUpTo(n) == [i \in 1 .. n |-> FRONT_LEFT + i - 1]

\* C18: at every moment the wheels written in the tick are the first vid - 1
\* wheels in the order front-left, front-right, back-left, back-right, each
\* once, whatever the writes returned; the tick sleeps after exactly these
\* four; and under fair scheduling every wheel is written again and again.
DispatchCadence ==
  /\ [](/\ vid \in FRONT_LEFT .. BACK_RIGHT + 1
        /\ d_sent = WheelsUpTo(vid - FRONT_LEFT)
        /\ d_pc = "sleep" <=> vid = BACK_RIGHT + 1
        /\ d_pc = "write" => msg.vescId = vid)
  /\ \A w \in VESC_IDS : []<>(d_pc = "write" /\ vid = w)

\* C18 witness: a tick has written the four wheels in order and sleeps while
\* estop_ is set and the Motion Control Loop owns the mutex
DispatchCadenceWitness ==
  /\ d_pc = "sleep"
  /\ d_sent = <<FRONT_LEFT, FRONT_RIGHT, BACK_LEFT, BACK_RIGHT>>
  /\ estop_ /\ robotstatus_mutex_ = "motors_control_loop"

(***************************************************************************)
(* Properties of both loops together (SpecDispatch)                        *)
(***************************************************************************)
\* set_robot_velocity has not been called yet: cmd_ts still has the value of
\* robotstatus_ = {0} (every call stores the clock, which is past StartClock)
NoCommandYet == robotstatus_.cmd_ts = 0

\* C19: until the first set_robot_velocity, with estop_ false all along, every
\* tick of the Motion Control Loop finds its condition false, the four
\* setpoints stay neutral, and every message send_command builds carries the
\* neutral value.
SafeBeforeFirstCommand ==
  NoCommandYet =>
    /\ ~estop_
    /\ AllNeutral(motors_speeds_)
    /\ m_pc \in {"run", "est", "lock2", "write", "sleep"} =>
         ~m_go /\ Age > CONTROL_LOOP_TIMEOUT_MS_
    /\ m_call.made => m_call.cmd = <<0, 0, 0>>
    /\ d_pc = "write" => msg.commandValue = MOTOR_NEUTRAL_

\* C19 witness: before any command, a tick has ended whose controller call
\* returned non-neutral setpoints, and send_command is about to write a
\* neutral duty command for a wheel measured turning
SafeBeforeFirstCommandWitness ==
  /\ NoCommandYet
  /\ m_pc = "sleep" /\ ~AllNeutral(wheel_speeds)
  /\ d_pc = "write" /\ msg.commandType = "DUTY" /\ msg.commandValue = MOTOR_NEUTRAL_
  /\ robotstatus_.motor1_rpm # 0

\* the message for wheel v called for by a setpoint vector and measured
\* velocities: hold when the wheel's setpoint and the velocities are neutral,
\* the setpoint as duty otherwise
CommandFor(v, speeds, rs) ==
  IF /\ speeds[v] = MOTOR_NEUTRAL_ /\ rs.linear_vel = MOTOR_NEUTRAL_
     /\ rs.trans_vel = MOTOR_NEUTRAL_ /\ rs.angular_vel = MOTOR_NEUTRAL_
    THEN [vescId |-> v, commandType |-> "CURRENT", commandValue |-> MOTOR_NEUTRAL_]
    ELSE [vescId |-> v, commandType |-> "DUTY", commandValue |-> speeds[v]]

\* C20 as stated: no wheel of a dispatch tick is read after a write-back that
\* changed the setpoints or the measured velocities since the first wheel of
\* the same tick was read.
DispatchTickFromOneWriteBack ==
  d_pc \in {"build", "write"} => ~d_seen.changed

\* C20 amended: each wheel is read in one lock section, so its message is built
\* from the setpoints and measured velocities of one write-back; and as long as
\* no write-back has changed them since the first wheel of the tick was read,
\* the message of every wheel of the tick is the one the state written by
\* that single write-back calls for.
DispatchWheelFromOneWriteBack ==
  /\ d_pc = "write" =>
       msg = CommandFor(vid, [w \in VESC_IDS |-> d_seen.setpoint],
                        [linear_vel |-> d_seen.linear_vel, trans_vel |-> d_seen.trans_vel,
                         angular_vel |-> d_seen.angular_vel])
  /\ (d_pc = "write" /\ ~d_changed) => msg = CommandFor(vid, motors_speeds_, robotstatus_)

\* C20 witness: the last wheel of a tick is about to be written, no write-back
\* having changed anything since the first was read, with driven setpoints
DispatchWheelFromOneWriteBackWitness ==
  /\ d_pc = "write" /\ vid = BACK_RIGHT /\ ~d_changed
  /\ msg.commandType = "DUTY" /\ msg.commandValue # MOTOR_NEUTRAL_
  /\ last_write = "moving"

====
